---- MODULE Spec2Model ----
(***************************************************************************)
(* Model of scripts/script.py: read_network (rows -> networkx.Graph) and   *)
(* diamond (greedy module expansion scored by the hypergeometric upper     *)
(* tail).  p-values are exact rationals num/den; NaN is valid = FALSE.     *)
(***************************************************************************)
EXTENDS Integers, Sequences, FiniteSets, TLC

\* ---------------------------------------------------------------- bounds
Ids == <<"A", "B", "C", "D">>
NodeIds == {Ids[i] : i \in 1..Len(Ids)}
MaxEdges == 3
MaxSeeds == 2
MaxX == 3
MaxAlpha == 2
MaxRows == 2

None == "None"

VARIABLES G, seeds, X, alpha, pc, cluster, added, nodes, N, neighbors, degrees,
          best_node, best_p, s, remaining, reason, missing, iter, nread

vars == <<G, seeds, X, alpha, pc, cluster, added, nodes, N, neighbors, degrees,
          best_node, best_p, s, remaining, reason, missing, iter, nread>>

\* ------------------------------------------------------- networkx.Graph
EmptyGraph == [nodes |-> {}, edges |-> {}]

\* G.add_edge(u, v): both end points become nodes, the pair becomes an edge
\* (a set, so multi-edges collapse; u = v stores the self-loop {u}).
add_edge(g, u, v) == [nodes |-> g.nodes \cup {u, v}, edges |-> g.edges \cup {{u, v}}]

\* set(G.neighbors(n)): a self-loop makes n its own neighbour.
GNeighbors(g, n) == {m \in g.nodes : {n, m} \in g.edges}

\* G.degree(n): a self-loop counts twice.
GDegree(g, n) == Cardinality(GNeighbors(g, n)) + (IF {n} \in g.edges THEN 1 ELSE 0)

\* ------------------------------------------------- scipy.stats.hypergeom
RECURSIVE Binom(_, _)
Binom(n, k) ==
    IF k < 0 \/ k > n THEN 0
    ELSE IF k = 0 THEN 1
    ELSE (Binom(n - 1, k - 1) * n) \div k

RECURSIVE TailSum(_, _, _, _, _)
\* sum over j in i..hi of C(ss, j) * C(NN - ss, k - j)
TailSum(i, hi, NN, ss, k) ==
    IF i > hi THEN 0
    ELSE Binom(ss, i) * Binom(NN - ss, k - i) + TailSum(i + 1, hi, NN, ss, k)

Min2(a, b) == IF a < b THEN a ELSE b
Max2(a, b) == IF a > b THEN a ELSE b

NaN == [valid |-> FALSE, num |-> 0, den |-> 1]
One == [valid |-> TRUE, num |-> 1, den |-> 1]

\* hypergeom.sf(q, NN, ss, k) = P(X > q), population NN, ss successes, k draws;
\* nan when the arguments are outside the distribution's domain.
hypergeom_sf(q, NN, ss, k) ==
    IF ~(NN > 0 /\ ss >= 0 /\ k >= 0 /\ ss <= NN /\ k <= NN) THEN NaN
    ELSE [valid |-> TRUE,
          num |-> TailSum(Max2(q + 1, 0), Min2(k, ss), NN, ss, k),
          den |-> Binom(NN, k)]

\* Python's a < b on floats: False as soon as one side is nan.
PLess(a, b) == a.valid /\ b.valid /\ a.num * b.den < b.num * a.den

\* -------------------------------------------------------------- diamond
\* A seed filter that forgets the membership test.
SeedsPresent_unfiltered(sd, g) == sd

\* seeds_present = set(s for s in seeds if s in G)
SeedsPresent(sd, g) == {x \in sd : x \in g.nodes}

\* A candidate set that forgets to remove the cluster.
Candidates_all(ns, cl) == ns

\* candidates = nodes - cluster
Candidates(ns, cl) == ns \ cl

\* s = int(alpha * len(cluster)); if s < 1: s = len(cluster); if s > N: s = N
EffectiveS(a, c, NN) ==
    LET s0 == a * c
        s1 == IF s0 < 1 THEN c ELSE s0
    IN  IF s1 > NN THEN NN ELSE s1

\* kb = sum(1 for nb in neighbors.get(node, ()) if nb in cluster)
Kb(nbrs, node, cl) ==
    IF node \in DOMAIN nbrs THEN Cardinality({nb \in nbrs[node] : nb \in cl}) ELSE 0

\* Python's a <= b on floats.
PLessEq(a, b) == a.valid /\ b.valid /\ a.num * b.den <= b.num * a.den

\* The comparison written with <= instead of <.
UpdateBest_le(node, pval, bn, bp) ==
    IF PLessEq(pval, bp) THEN [node |-> node, p |-> pval] ELSE [node |-> bn, p |-> bp]

\* The update that records the node but leaves best_p at its old value.
UpdateBest_stale(node, pval, bn, bp) ==
    IF PLess(pval, bp) THEN [node |-> node, p |-> bp] ELSE [node |-> bn, p |-> bp]

\* if pval < best_p: best_p = pval; best_node = node
UpdateBest(node, pval, bn, bp) ==
    IF PLess(pval, bp) THEN [node |-> node, p |-> pval] ELSE [node |-> bn, p |-> bp]

\* lines 139-154: the loop body on one candidate; degree 0 is skipped (continue).
ScanBody(node, k, nbrs, cl, NN, ss, bn, bp) ==
    IF k = 0 THEN [node |-> bn, p |-> bp]
    ELSE LET kb == Kb(nbrs, node, cl)
             pval == hypergeom_sf(kb - 1, NN, ss, k)
         IN  UpdateBest(node, pval, bn, bp)

\* A degree-0 candidate that ends the scan (break written for continue).
AfterCandidate_break(rem, node, k) == IF k = 0 THEN {} ELSE rem \ {node}

\* The candidates the for loop has still to yield after this one.
AfterCandidate(rem, node, k) == rem \ {node}

\* The loop condition written with <= instead of <.
LoopCond_le(n, x) == n <= x

\* while len(added) < X
LoopCond(n, x) == n < x

\* An admission that forgets to grow the cluster.
ClusterAdd_forgotten(cl, node) == cl

\* cluster.add(best_node)
ClusterAdd(cl, node) == cl \cup {node}

Locals0 ==
    /\ cluster = {} /\ added = <<>> /\ nodes = {} /\ N = 0
    /\ neighbors = <<>> /\ degrees = <<>>
    /\ best_node = None /\ best_p = One /\ s = 0 /\ remaining = {}
    /\ reason = "RUNNING" /\ missing = {} /\ iter = 0

Prefix(m) == {Ids[i] : i \in 1..m}
Pairs(S) == {{u, v} : u \in S, v \in S}
SmallSubsets(S, m) == {T \in SUBSET S : Cardinality(T) <= m}
Graphs ==
    UNION {{[nodes |-> Prefix(m), edges |-> E] : E \in SmallSubsets(Pairs(Prefix(m)), MaxEdges)}
           : m \in 0..Len(Ids)}

\* diamond(G, seeds, X, alpha) called on any bounded graph.
Init ==
    /\ G \in Graphs
    /\ seeds \in SmallSubsets(NodeIds, MaxSeeds)
    /\ X \in 1..MaxX
    /\ alpha \in 1..MaxAlpha
    /\ pc = "validate"
    /\ nread = 0
    /\ Locals0

\* lines 99-105: no seed is a node of G.
ValidateFail ==
    /\ pc = "validate"
    /\ SeedsPresent(seeds, G) = {}
    /\ missing' = seeds \ SeedsPresent(seeds, G)
    /\ reason' = "EMPTY_SEEDS"
    /\ pc' = "done"
    /\ UNCHANGED <<G, seeds, X, alpha, cluster, added, nodes, N, neighbors, degrees,
                   best_node, best_p, s, remaining, iter, nread>>

\* lines 99-118: some seed is present; build cluster and the caches.
Setup ==
    /\ pc = "validate"
    /\ LET seeds_present == SeedsPresent(seeds, G) IN
        /\ seeds_present # {}
        /\ missing' = seeds \ seeds_present
        /\ cluster' = seeds_present
    /\ added' = <<>>
    /\ nodes' = G.nodes
    /\ N' = Cardinality(G.nodes)
    /\ neighbors' = [n \in G.nodes |-> GNeighbors(G, n)]
    /\ degrees' = [n \in G.nodes |-> GDegree(G, n)]
    /\ pc' = "while"
    /\ UNCHANGED <<G, seeds, X, alpha, best_node, best_p, s, remaining, reason, iter, nread>>

\* line 121: the loop condition fails.
TargetReached ==
    /\ pc = "while"
    /\ ~LoopCond(Len(added), X)
    /\ reason' = "TARGET_REACHED"
    /\ pc' = "done"
    /\ UNCHANGED <<G, seeds, X, alpha, cluster, added, nodes, N, neighbors, degrees,
                   best_node, best_p, s, remaining, missing, iter, nread>>

\* lines 121-136: an iteration starts and finds no candidate.
NoCandidates ==
    /\ pc = "while"
    /\ LoopCond(Len(added), X)
    /\ Candidates(nodes, cluster) = {}
    /\ best_node' = None
    /\ best_p' = One
    /\ s' = EffectiveS(alpha, Cardinality(cluster), N)
    /\ iter' = iter + 1
    /\ remaining' = {}
    /\ reason' = "NO_CANDIDATES"
    /\ pc' = "done"
    /\ UNCHANGED <<G, seeds, X, alpha, cluster, added, nodes, N, neighbors, degrees,
                   missing, nread>>

\* lines 121-138: an iteration starts with a non-empty candidate set.
BeginScan ==
    /\ pc = "while"
    /\ LoopCond(Len(added), X)
    /\ Candidates(nodes, cluster) # {}
    /\ best_node' = None
    /\ best_p' = One
    /\ s' = EffectiveS(alpha, Cardinality(cluster), N)
    /\ iter' = iter + 1
    /\ remaining' = Candidates(nodes, cluster)
    /\ pc' = "scan"
    /\ UNCHANGED <<G, seeds, X, alpha, cluster, added, nodes, N, neighbors, degrees,
                   reason, missing, nread>>

\* lines 138-154: the set iterator yields the next candidate (in any order) and
\* the loop body runs on it.
ScanStep ==
    /\ pc = "scan"
    /\ \E node \in remaining :
        LET k == IF node \in DOMAIN degrees THEN degrees[node] ELSE 0
            b == ScanBody(node, k, neighbors, cluster, N, s, best_node, best_p)
        IN  /\ best_node' = b.node
            /\ best_p' = b.p
            /\ remaining' = AfterCandidate(remaining, node, k)
    /\ UNCHANGED <<G, seeds, X, alpha, pc, cluster, added, nodes, N, neighbors, degrees,
                   s, reason, missing, iter, nread>>

\* lines 155-158: the scan is over and selected nothing.
NoSelection ==
    /\ pc = "scan"
    /\ remaining = {}
    /\ best_node = None
    /\ reason' = "NO_SCORABLE_CANDIDATE"
    /\ pc' = "done"
    /\ UNCHANGED <<G, seeds, X, alpha, cluster, added, nodes, N, neighbors, degrees,
                   best_node, best_p, s, remaining, missing, iter, nread>>

\* lines 155-161: the scan is over; admit best_node.
Admit ==
    /\ pc = "scan"
    /\ remaining = {}
    /\ best_node # None
    /\ added' = Append(added, best_node)
    /\ cluster' = ClusterAdd(cluster, best_node)
    /\ pc' = "while"
    /\ UNCHANGED <<G, seeds, X, alpha, nodes, N, neighbors, degrees,
                   best_node, best_p, s, remaining, reason, missing, iter, nread>>

Next ==
    \/ ValidateFail
    \/ Setup
    \/ TargetReached
    \/ NoCandidates
    \/ BeginScan
    \/ ScanStep
    \/ NoSelection
    \/ Admit

Spec == Init /\ [][Next]_vars

\* --------------------------------------------------------- read_network
score_threshold == 400

LowerIds == <<"a", "b", "c", "d">>

\* c.strip() on the cells of the model's alphabet.
Strip(c) == IF c = " B" THEN "B" ELSE c

\* str.lower() on the cells of the model's alphabet.
Lower(c) ==
    IF c = "Gene" THEN "gene"
    ELSE IF \E i \in 1..Len(Ids) : Ids[i] = c
         THEN LowerIds[CHOOSE i \in 1..Len(Ids) : Ids[i] = c]
         ELSE c

Header1 == {"protein1", "node1", "gene", "protein"}
Header2 == {"protein2", "node2", "gene", "protein"}

\* float(row[2]): the numeric cells of the model's alphabet; a ValueError otherwise.
IsNumeric(c) == c \in {"399", "400"}
ParseFloat(c) == IF c = "399" THEN 399 ELSE 400

NameCells == NodeIds \cup {" B", "Gene", "protein1", "node2"}
ScoreCells == {"399", "400", "x"}
Rows ==
    {<<>>} \cup {<<a>> : a \in NameCells}
    \cup {<<a, b>> : a \in NameCells, b \in NameCells}
    \cup {<<a, b, c>> : a \in NameCells, b \in NameCells, c \in ScoreCells}

\* lines 39-60: the body of the loop over the rows of the file.
read_row(g, raw, threshold) ==
    IF Len(raw) = 0 THEN g
    ELSE LET row == [i \in 1..Len(raw) |-> Strip(raw[i])] IN
         IF Len(row) < 2 THEN g
         ELSE IF Lower(row[1]) \in Header1 \/ Lower(row[2]) \in Header2 THEN g
         ELSE IF Len(row) >= 3
              THEN IF IsNumeric(row[3])
                   THEN IF ParseFloat(row[3]) >= threshold
                        THEN add_edge(g, row[1], row[2])
                        ELSE g
                   ELSE add_edge(g, row[1], row[2])
              ELSE add_edge(g, row[1], row[2])

\* main() before the network is read: G = nx.Graph(), nothing else set yet.
InitNet ==
    /\ G = EmptyGraph
    /\ seeds = {}
    /\ X = 0
    /\ alpha = 1
    /\ pc = "read"
    /\ nread = 0
    /\ Locals0

\* One more row of the network file goes through the loop body.
ReadRow ==
    /\ pc = "read"
    /\ nread < MaxRows
    /\ \E raw \in Rows : G' = read_row(G, raw, score_threshold)
    /\ nread' = nread + 1
    /\ UNCHANGED <<seeds, X, alpha, pc, cluster, added, nodes, N, neighbors, degrees,
                   best_node, best_p, s, remaining, reason, missing, iter>>

\* End of file: read_network returns G and main calls
\* diamond(G, seeds, X=args.num, alpha=max(1, args.alpha)).
MainCall ==
    /\ pc = "read"
    /\ seeds' \in SmallSubsets(NodeIds, MaxSeeds) \ {{}}
    /\ X' \in 1..MaxX
    /\ \E a \in 0..MaxAlpha : alpha' = Max2(1, a)
    /\ pc' = "validate"
    /\ UNCHANGED <<G, cluster, added, nodes, N, neighbors, degrees,
                   best_node, best_p, s, remaining, reason, missing, iter, nread>>

NextNet ==
    \/ ReadRow
    \/ MainCall
    \/ Next

SpecNet == InitNet /\ [][NextNet]_vars

\* ------------------------------------------- diamond, one fixed scan order
RECURSIVE ScanInOrder(_, _, _, _, _, _)
\* The for loop of lines 138-154 with the candidates yielded in the order of Ids.
ScanInOrder(g, cl, ss, i, bn, bp) ==
    IF i > Len(Ids) THEN [node |-> bn, p |-> bp]
    ELSE IF Ids[i] \notin Candidates(g.nodes, cl) THEN ScanInOrder(g, cl, ss, i + 1, bn, bp)
    ELSE LET b == ScanBody(Ids[i], GDegree(g, Ids[i]),
                           [n \in g.nodes |-> GNeighbors(g, n)], cl,
                           Cardinality(g.nodes), ss, bn, bp)
         IN  ScanInOrder(g, cl, ss, i + 1, b.node, b.p)

RECURSIVE LoopInOrder(_, _, _, _, _)
\* The while loop of lines 121-161 run with that scan order.
LoopInOrder(g, cl, ad, x, a) ==
    IF ~LoopCond(Len(ad), x) THEN ad
    ELSE IF Candidates(g.nodes, cl) = {} THEN ad
    ELSE LET ss == EffectiveS(a, Cardinality(cl), Cardinality(g.nodes))
             b == ScanInOrder(g, cl, ss, 1, None, One)
         IN  IF b.node = None THEN ad
             ELSE LoopInOrder(g, ClusterAdd(cl, b.node), Append(ad, b.node), x, a)

\* diamond(g, sd, x, a) when the candidate set is enumerated in the order of Ids.
DiamondInOrder(g, sd, x, a) ==
    IF SeedsPresent(sd, g) = {} THEN <<>>
    ELSE LoopInOrder(g, SeedsPresent(sd, g), <<>>, x, a)

\* =============================================================== claims
SeqSet(sq) == {sq[i] : i \in 1..Len(sq)}
NoDup(sq) == \A i, j \in 1..Len(sq) : sq[i] = sq[j] => i = j
Last(sq) == sq[Len(sq)]
Started == pc \in {"while", "scan", "done"} /\ reason # "EMPTY_SEEDS"

\* The claims' p-value P(X >= kb | N, s, k) of candidate c against cluster cl, with
\* s = min(alpha * |cl|, N): numerator and denominator of the exact ratio.
ClaimS(cl) == Min2(alpha * Cardinality(cl), Cardinality(G.nodes))
ClaimKb(c, cl) == Cardinality(GNeighbors(G, c) \cap cl)
ClaimNum(c, cl) ==
    TailSum(ClaimKb(c, cl), Min2(GDegree(G, c), ClaimS(cl)),
            Cardinality(G.nodes), ClaimS(cl), GDegree(G, c))
ClaimDen(c) == Binom(Cardinality(G.nodes), GDegree(G, c))
\* The distribution exists only for k <= N draws.
ClaimDefined(c) == GDegree(G, c) <= Cardinality(G.nodes)
ClaimScorable(c, cl) == GDegree(G, c) > 0 /\ ClaimKb(c, cl) > 0
ClaimSmaller(c, d, cl) ==
    /\ ClaimDefined(c) /\ ClaimDefined(d)
    /\ ClaimNum(c, cl) * ClaimDen(d) < ClaimNum(d, cl) * ClaimDen(c)
ClaimBelowOne(c, cl) == ClaimDefined(c) /\ ClaimNum(c, cl) < ClaimDen(c)

\* ---- C1
C1_Inv ==
    Started =>
        /\ Cardinality(cluster) = Cardinality(seeds \cap G.nodes) + Len(added)
        /\ NoDup(added)
        /\ SeqSet(added) \cap seeds = {}
C1_Step ==
    /\ cluster \subseteq cluster'
    /\ added' # added =>
        /\ Len(added') = Len(added) + 1
        /\ SubSeq(added', 1, Len(added)) = added
        /\ Last(added') \notin cluster
        /\ cluster' = cluster \cup {Last(added')}
\* C1: in every state of a run |cluster| = |seeds present in G| + len(added); added
\* holds no node twice and no seed; cluster never loses a node and every admission
\* adds exactly one node that was not in cluster.
C1_ClusterGrowth == [](C1_Inv) /\ [][C1_Step]_vars
C1_Witness ==
    /\ pc = "done" /\ Len(added) = 2 /\ Cardinality(cluster) = 4 /\ missing = {}

\* ---- C2
\* C2: determinism: a finished run returns the list the run with the fixed scan
\* order returns, whatever order its own scans took (so any two runs agree).
C2_Determinism == pc = "done" => added = DiamondInOrder(G, seeds, X, alpha)

\* ---- C3
C3_Pre ==
    /\ pc = "done"
    /\ seeds \cap G.nodes # {}
    /\ X > Cardinality(G.nodes \ seeds)
\* C3 as stated: with X above the number of non-seed nodes the run stops through
\* the empty-candidate branch and returns every non-seed node exactly once.
C3_Original ==
    C3_Pre =>
        /\ reason = "NO_CANDIDATES"
        /\ SeqSet(added) = G.nodes \ seeds
        /\ NoDup(added)
\* C3 amended: with X above the number of non-seed nodes the run never reaches X;
\* it stops through the empty-candidate branch or the no-node-selected branch,
\* returns only non-seed nodes, each at most once, and stops through the
\* empty-candidate branch exactly when it returns every non-seed node.
C3_EarlyStop ==
    C3_Pre =>
        /\ reason \in {"NO_CANDIDATES", "NO_SCORABLE_CANDIDATE"}
        /\ Len(added) < X
        /\ NoDup(added)
        /\ SeqSet(added) \subseteq G.nodes \ seeds
        /\ (reason = "NO_CANDIDATES") <=> (SeqSet(added) = G.nodes \ seeds)
C3_Witness ==
    /\ C3_Pre /\ reason = "NO_CANDIDATES" /\ Len(added) = 2 /\ X = 3

\* ---- C4
\* C4: the no-node-selected stop happens only when every remaining candidate has
\* degree 0 or no neighbour in cluster.
C4_StopOnlyIfNoneEligible ==
    reason = "NO_SCORABLE_CANDIDATE" =>
        \A c \in G.nodes \ cluster : ~ClaimScorable(c, cluster)

\* ---- C5
PathABCD ==
    [nodes |-> {"A", "B", "C", "D"}, edges |-> {{"A", "B"}, {"B", "C"}, {"C", "D"}}]
ScenarioA == G = PathABCD /\ seeds = {"A"} /\ X = 1 /\ alpha = 1 /\ pc = "done"
C5_Step == added' # added => ClaimKb(Last(added'), cluster) > 0
\* C5: every node appended to added has a neighbour in cluster at the moment of its
\* admission; on the path A-B-C-D with seeds {A}, X = 1, alpha = 1 the run returns [B].
C5_AdmittedTouchCluster == [](ScenarioA => added = <<"B">>) /\ [][C5_Step]_vars
C5_Witness == ScenarioA /\ added = <<"B">> /\ reason = "TARGET_REACHED"

\* ---- C6
\* A pass of the for loop: the candidate it yielded is the one that left remaining.
C6_Step ==
    pc = "scan" /\ remaining' # remaining =>
        \E node \in remaining :
            /\ remaining' = remaining \ {node}
            /\ GDegree(G, node) = 0 =>
                /\ best_node' = best_node /\ best_p' = best_p
                /\ pc' = "scan" /\ reason' = reason
                /\ added' = added /\ cluster' = cluster
\* C6: no node of degree 0 is ever in added; a pass of the scan over a degree-0
\* candidate changes neither best_node nor best_p, raises no error and does not
\* end the scan: every other candidate is still yielded and scored.
C6_ZeroDegreeSkipped ==
    [](\A i \in 1..Len(added) : GDegree(G, added[i]) > 0) /\ [][C6_Step]_vars
C6_Witness ==
    /\ pc = "done" /\ Len(added) >= 1
    /\ \E c \in G.nodes \ cluster : GDegree(G, c) = 0

\* ---- C7
\* C7: with no seed in the graph the call ends at once with the empty-seed error,
\* no iteration and an empty list; with a seed present the absent seeds are only
\* recorded and the run starts from cluster = seeds /\ nodes.
C7_SeedValidation ==
    pc \notin {"read", "validate"} =>
        /\ seeds \cap G.nodes = {} =>
            /\ reason = "EMPTY_SEEDS" /\ pc = "done"
            /\ added = <<>> /\ iter = 0 /\ best_node = None /\ cluster = {}
        /\ seeds \cap G.nodes # {} =>
            /\ reason # "EMPTY_SEEDS"
            /\ missing = seeds \ G.nodes
            /\ added = <<>> => cluster = seeds \cap G.nodes
C7_Witness ==
    /\ reason = "EMPTY_SEEDS" /\ pc = "done" /\ seeds # {} /\ G.nodes # {} /\ X > 0

\* ---- C8
C8_Step ==
    added' # added =>
        /\ Last(added') \in G.nodes \ cluster
        /\ ClaimScorable(Last(added'), cluster)
        /\ ClaimDefined(Last(added'))
        /\ \A c \in G.nodes \ cluster :
            ClaimScorable(c, cluster) => ~ClaimSmaller(c, Last(added'), cluster)
\* C8: the admitted node is a candidate of positive degree adjacent to cluster, and
\* no such candidate has a strictly smaller exact p-value, s being taken from the
\* cluster before the admission.
C8_AdmitsMinimum == [][C8_Step]_vars
C8_Witness ==
    /\ pc = "while" /\ Len(added) >= 1 /\ best_node = Last(added)
    /\ \E c \in G.nodes \ cluster :
        /\ ClaimScorable(c, cluster \ {best_node})
        /\ ClaimSmaller(best_node, c, cluster \ {best_node})
        /\ ClaimBelowOne(c, cluster \ {best_node})

\* ---- C9
StopLen == Len(added) = X
StopEmpty == G.nodes \ cluster = {}
StopNone == reason = "NO_SCORABLE_CANDIDATE"
\* C9 as stated, for the runs that enter the main loop: at most X iterations,
\* len(added) <= X, and at termination exactly one of the three stop conditions holds.
C9_Original ==
    pc = "done" /\ Started =>
        /\ iter <= X /\ Len(added) <= X
        /\ \/ StopLen /\ ~StopEmpty /\ ~StopNone
           \/ ~StopLen /\ StopEmpty /\ ~StopNone
           \/ ~StopLen /\ ~StopEmpty /\ StopNone
\* Strictly smaller after every step of a run: a bound on the steps still to come.
Measure ==
    LET K == Cardinality(NodeIds) + 3 IN
    IF pc = "done" THEN 0
    ELSE IF pc = "validate" THEN (X + 2) * K
    ELSE IF pc = "while" THEN (X - Len(added)) * K + K
    ELSE (X - Len(added)) * K + Cardinality(remaining) + 2
C9_Inv ==
    /\ iter <= X /\ Len(added) <= X
    /\ pc = "validate" => ENABLED (ValidateFail \/ Setup)
    /\ pc = "while" => ENABLED (TargetReached \/ NoCandidates \/ BeginScan)
    /\ pc = "scan" => ENABLED (ScanStep \/ NoSelection \/ Admit)
    /\ pc \in {"validate", "while", "scan", "done"}
    /\ Started => iter \in {Len(added), Len(added) + 1}
    /\ Started /\ iter = Len(added) + 1 =>
        pc = "scan" \/ reason \in {"NO_CANDIDATES", "NO_SCORABLE_CANDIDATE"}
    /\ reason = "EMPTY_SEEDS" => pc = "done" /\ iter = 0 /\ added = <<>>
    /\ pc = "done" /\ reason # "EMPTY_SEEDS" =>
        \/ reason = "TARGET_REACHED" /\ StopLen
        \/ reason = "NO_CANDIDATES" /\ Len(added) < X /\ StopEmpty
        \/ reason = "NO_SCORABLE_CANDIDATE" /\ Len(added) < X /\ ~StopEmpty
C9_Step == Measure' < Measure
\* C9 amended: a run that finds a seed in the graph stops after at most X
\* iterations with len(added) <= X, through exactly one branch: the loop condition
\* (len(added) = X), the empty candidate set (len(added) < X), or no node selected
\* (len(added) < X, candidates left); len(added) = X and an empty candidate set may
\* hold together; every iteration that does not stop the run admits one node; a
\* run that finds no seed stops before the loop.
C9_Termination == [](C9_Inv) /\ [][C9_Step]_vars
C9_Witness ==
    /\ pc = "done" /\ reason = "TARGET_REACHED" /\ StopLen /\ StopEmpty /\ X = 2

\* ---- C10
\* C10: the graph read_network builds has no self-loop, so a node is never its own
\* neighbour and the cached degree is the size of the cached neighbour set.
C10_NoSelfLoop ==
    /\ \A n \in G.nodes : n \notin GNeighbors(G, n)
    /\ Started =>
        \A n \in nodes : degrees[n] = Cardinality(neighbors[n]) /\ n \notin neighbors[n]

====
